---- MODULE Spec2Model ----
(***************************************************************************)
(* terraform-module-gcs-publisher: one run of the action (validate inputs,  *)
(* stage credentials, archive, upload, verify, prune old versions) against  *)
(* an object store.  Strings are TLA+ strings; Len, SubSeq and \o give      *)
(* their characters, so name building and name parsing are computed on the  *)
(* characters as the JavaScript does.                                       *)
(***************************************************************************)
EXTENDS Integers, Sequences, FiniteSets, TLC

\* ------------------------------------------------------------------ bounds
\* largest number of objects in the bucket when the run starts
MaxStored == 3

\* largest number of retention passes made over one bucket
MaxPasses == 2

\* ------------------------------------------------------- string primitives
Char(s, i) == SubSeq(s, i, i)

Digit == {"0", "1", "2", "3", "4", "5", "6", "7", "8", "9"}

Lower == {"a", "b", "c", "d", "e", "f", "g", "h", "i", "j", "k", "l", "m",
          "n", "o", "p", "q", "r", "s", "t", "u", "v", "w", "x", "y", "z"}

Upper == {"A", "B", "C", "D", "E", "F", "G", "H", "I", "J", "K", "L", "M",
          "N", "O", "P", "Q", "R", "S", "T", "U", "V", "W", "X", "Y", "Z"}

StartsWith(s, p) == Len(s) >= Len(p) /\ SubSeq(s, 1, Len(p)) = p

EndsWith(s, p) == Len(s) >= Len(p) /\ SubSeq(s, Len(s) - Len(p) + 1, Len(s)) = p

\* every character of s is in the class cls (s may be empty)
AllIn(s, cls) == \A i \in 1..Len(s) : Char(s, i) \in cls

\* \d+
IsDigits(s) == Len(s) > 0 /\ AllIn(s, Digit)

\* position of the first occurrence of character c in s, 0 when absent
IndexOf(s, c) ==
  IF \E i \in 1..Len(s) : Char(s, i) = c
  THEN CHOOSE i \in 1..Len(s) : Char(s, i) = c /\ \A j \in 1..(i - 1) : Char(s, j) # c
  ELSE 0

DigitVal(c) ==
  CASE c = "0" -> 0 [] c = "1" -> 1 [] c = "2" -> 2 [] c = "3" -> 3 [] c = "4" -> 4
    [] c = "5" -> 5 [] c = "6" -> 6 [] c = "7" -> 7 [] c = "8" -> 8 [] c = "9" -> 9

\* value of a non-empty string of decimal digits
RECURSIVE DecVal(_)
DecVal(s) ==
  IF Len(s) = 0 THEN 0
  ELSE 10 * DecVal(SubSeq(s, 1, Len(s) - 1)) + DigitVal(Char(s, Len(s)))

\* the parts of s between the occurrences of character c (String.split)
RECURSIVE Split(_, _)
Split(s, c) ==
  LET i == IndexOf(s, c)
  IN IF i = 0 THEN <<s>>
     ELSE <<SubSeq(s, 1, i - 1)>> \o Split(SubSeq(s, i + 1, Len(s)), c)

\* ------------------------------------------------------------ JavaScript
\* a JavaScript number: an integer, or NaN
Num(n) == [nan |-> FALSE, val |-> n]

NaN == [nan |-> TRUE, val |-> 0]

\* a <= b on JavaScript numbers: false as soon as one side is NaN
JsLe(a, b) == ~a.nan /\ ~b.nan /\ a.val <= b.val

\* Array.prototype.slice(start): ToIntegerOrInfinity maps NaN to 0; start
\* is never negative where the program calls it
Slice(arr, start) ==
  LET k == IF start.nan THEN 0 ELSE start.val
  IN IF k >= Len(arr) THEN <<>> ELSE SubSeq(arr, k + 1, Len(arr))

\* parseInt(s, 10): optional sign, then the longest prefix of digits; NaN
\* when there is no digit (the inputs are already trimmed by core.getInput)
ParseInt(s) ==
  LET neg  == Len(s) > 0 /\ Char(s, 1) = "-"
      body == IF Len(s) > 0 /\ Char(s, 1) \in {"-", "+"} THEN SubSeq(s, 2, Len(s)) ELSE s
      n    == IF \E i \in 1..Len(body) : Char(body, i) \notin Digit
              THEN (CHOOSE i \in 1..Len(body) :
                      Char(body, i) \notin Digit /\ AllIn(SubSeq(body, 1, i - 1), Digit)) - 1
              ELSE Len(body)
  IN IF n = 0 THEN NaN
     ELSE IF neg THEN Num(0 - DecVal(SubSeq(body, 1, n))) ELSE Num(DecVal(SubSeq(body, 1, n)))

\* ---------------------------------------------------------------- semver
\* NUMERICIDENTIFIER: 0|[1-9]\d*
IsNumericId(s) == IsDigits(s) /\ (Len(s) = 1 \/ Char(s, 1) # "0")

IdChar == Digit \cup Lower \cup Upper \cup {"-"}

\* PRERELEASEIDENTIFIER: a numeric identifier, or [0-9A-Za-z-]+ with a non-digit
IsPrereleaseId(s) ==
  Len(s) > 0 /\ AllIn(s, IdChar) /\ (AllIn(s, Digit) => IsNumericId(s))

\* BUILDIDENTIFIER: [a-zA-Z0-9-]+
IsBuildId(s) == Len(s) > 0 /\ AllIn(s, IdChar)

\* MAINVERSION: three numeric identifiers separated by dots
IsMainVersion(s) ==
  LET p == Split(s, ".")
  IN Len(p) = 3 /\ \A i \in 1..3 : IsNumericId(p[i])

\* the strict FULL pattern: v?MAIN(-PRERELEASE)?(+BUILD)?
SemverFull(v) ==
  LET t     == IF StartsWith(v, "v") THEN SubSeq(v, 2, Len(v)) ELSE v
      plus  == IndexOf(t, "+")
      nob   == IF plus = 0 THEN t ELSE SubSeq(t, 1, plus - 1)
      build == IF plus = 0 THEN "" ELSE SubSeq(t, plus + 1, Len(t))
      dash  == IndexOf(nob, "-")
      main  == IF dash = 0 THEN nob ELSE SubSeq(nob, 1, dash - 1)
      pre   == IF dash = 0 THEN "" ELSE SubSeq(nob, dash + 1, Len(nob))
  IN /\ IsMainVersion(main)
     /\ dash # 0 => \A i \in 1..Len(Split(pre, ".")) : IsPrereleaseId(Split(pre, ".")[i])
     /\ plus # 0 => \A i \in 1..Len(Split(build, ".")) : IsBuildId(Split(build, ".")[i])

\* semver.valid(v) is non-null
SemverValid(v) == SemverFull(v)

\* <<major, minor, patch>> of a MAJOR.MINOR.PATCH string
MainOf(v) ==
  LET p == Split(v, ".")
  IN <<DecVal(p[1]), DecVal(p[2]), DecVal(p[3])>>

\* SemVer.compareMain on two parsed versions: -1, 0 or 1
CompareMain(a, b) ==
  IF a[1] # b[1] THEN (IF a[1] < b[1] THEN -1 ELSE 1)
  ELSE IF a[2] # b[2] THEN (IF a[2] < b[2] THEN -1 ELSE 1)
  ELSE IF a[3] # b[3] THEN (IF a[3] < b[3] THEN -1 ELSE 1)
  ELSE 0

\* code unit of a character of a MAJOR.MINOR.PATCH string
CharCode(c) == IF c = "." THEN 46 ELSE 48 + DigitVal(c)

\* a.localeCompare-like comparison of the two strings, code unit by code unit
RECURSIVE SemverCompareLexical(_, _)
SemverCompareLexical(a, b) ==
  IF Len(a) = 0 /\ Len(b) = 0 THEN 0
  ELSE IF Len(a) = 0 THEN -1
  ELSE IF Len(b) = 0 THEN 1
  ELSE IF CharCode(Char(a, 1)) < CharCode(Char(b, 1)) THEN -1
  ELSE IF CharCode(Char(a, 1)) > CharCode(Char(b, 1)) THEN 1
  ELSE SemverCompareLexical(SubSeq(a, 2, Len(a)), SubSeq(b, 2, Len(b)))

\* semver.compare(a, b) for MAJOR.MINOR.PATCH strings (no pre-release part,
\* so comparePre contributes 0)
SemverCompare(a, b) == CompareMain(MainOf(a), MainOf(b))

\* ----------------------------------------------------------- validation
BucketEdge == Lower \cup Digit

BucketInner == Lower \cup Digit \cup {"_", ".", "-"}

\* the pattern without the upper limit of its middle part
BucketRegexUnbounded(name) ==
  /\ Len(name) >= 3
  /\ Char(name, 1) \in BucketEdge
  /\ Char(name, Len(name)) \in BucketEdge
  /\ AllIn(SubSeq(name, 2, Len(name) - 1), BucketInner)

\* /^[a-z0-9][a-z0-9_.-]{1,61}[a-z0-9]$/.test(name)
BucketRegex(name) ==
  /\ Len(name) >= 3
  /\ Len(name) <= 63
  /\ Char(name, 1) \in BucketEdge
  /\ Char(name, Len(name)) \in BucketEdge
  /\ AllIn(SubSeq(name, 2, Len(name) - 1), BucketInner)

\* /^[a-zA-Z0-9_-]+$/.test(name)
ModuleNameRegex(name) ==
  Len(name) > 0 /\ AllIn(name, Lower \cup Upper \cup Digit \cup {"_", "-"})

\* validateBucketName(name): it throws, or returns the name
ValidateBucketName(name) == [threw |-> ~BucketRegex(name), value |-> name]

\* the error validateInputs throws for the options o, "" when it returns
ValidateInputs(o) ==
  IF ValidateBucketName(o.bucketName).threw THEN "Invalid bucket name"
  ELSE IF ~ModuleNameRegex(o.moduleName) THEN "Invalid module name"
  ELSE IF ~o.modulePathExists THEN "Module path does not exist"
  ELSE IF ~SemverValid(o.moduleVersion) THEN "Invalid module version"
  ELSE IF JsLe(o.keepVersions, Num(0)) THEN "Invalid keep-versions value"
  ELSE ""

\* the options object getValidatedInputs builds from the action's inputs
ReadOptions(in) ==
  [bucketName            |-> in.bucket,
   moduleName            |-> in.moduleName,
   moduleVersion         |-> in.moduleVersion,
   modulePathExists      |-> in.modulePathExists,
   googleCredentialsJson |-> in.credentials,
   deleteOldVersions     |-> (in.deleteOld = "true"),
   keepVersions          |-> ParseInt(IF in.keep = "" THEN "5" ELSE in.keep)]

\* ------------------------------------------------------------ object names
\* moduleFolder of processModuleUpload
ModuleFolder(moduleName) == "modules/" \o moduleName

\* zipFileName of processModuleUpload
ZipFileName(moduleName, moduleVersion) == moduleName \o "-" \o moduleVersion \o ".zip"

\* the destination key processModuleUpload uploads to
DestinationKey(moduleName, moduleVersion) ==
  ModuleFolder(moduleName) \o "/" \o ZipFileName(moduleName, moduleVersion)

\* the URL uploadToGCS returns, in place of the gs:// one
ModuleUrlHttps(bucketName, moduleName, moduleVersion) ==
  "https://storage.googleapis.com/" \o bucketName \o "/" \o ModuleFolder(moduleName) \o "/"
    \o ZipFileName(moduleName, moduleVersion)

\* the value returned by processModuleUpload
ModuleUrl(bucketName, moduleName, moduleVersion) ==
  "gs://" \o bucketName \o "/" \o ModuleFolder(moduleName) \o "/"
    \o ZipFileName(moduleName, moduleVersion)

\* \d+\.\d+\.\d+
IsDotted3(s) ==
  LET p == Split(s, ".")
  IN Len(p) = 3 /\ \A i \in 1..3 : IsDigits(p[i])

\* a pattern without the leading ^: <moduleName>-(\d+\.\d+\.\d+)\.zip$ found
\* anywhere in the name
MatchVersionUnanchored(fileName, moduleFolder, moduleName) ==
  LET suf  == ".zip"
      hits == {i \in 1..Len(fileName) :
                 /\ StartsWith(SubSeq(fileName, i, Len(fileName)), moduleName \o "-")
                 /\ EndsWith(fileName, suf)
                 /\ IsDotted3(SubSeq(fileName, i + Len(moduleName) + 1, Len(fileName) - Len(suf)))}
  IN IF hits = {} THEN ""
     ELSE LET i == CHOOSE i \in hits : \A j \in hits : i <= j
          IN SubSeq(fileName, i + Len(moduleName) + 1, Len(fileName) - Len(suf))

\* match[1] of fileName.match(moduleFileRegex), "" when there is no match:
\* ^<moduleFolder>/<moduleName>-(\d+\.\d+\.\d+)\.zip$  (module names hold no
\* character that is special in a regular expression)
MatchVersion(fileName, moduleFolder, moduleName) ==
  LET pre == moduleFolder \o "/" \o moduleName \o "-"
      suf == ".zip"
      mid == SubSeq(fileName, Len(pre) + 1, Len(fileName) - Len(suf))
  IN IF /\ Len(fileName) > Len(pre) + Len(suf)
        /\ StartsWith(fileName, pre)
        /\ EndsWith(fileName, suf)
        /\ IsDotted3(mid)
     THEN mid
     ELSE ""

\* --------------------------------------------------------------- retention
\* the filter loop without its test against the current version
RECURSIVE FilterVersionFilesNoSkip(_, _, _, _)
FilterVersionFilesNoSkip(files, moduleFolder, moduleName, currentVersion) ==
  IF files = <<>> THEN <<>>
  ELSE LET file    == Head(files)
           version == MatchVersion(file, moduleFolder, moduleName)
           rest    == FilterVersionFilesNoSkip(Tail(files), moduleFolder, moduleName, currentVersion)
       IN IF version # ""
          THEN <<[file |-> file, version |-> version]>> \o rest
          ELSE rest

\* the filter loop of cleanupOldVersions: the entries it pushes, in the
\* order of the listing
RECURSIVE FilterVersionFiles(_, _, _, _)
FilterVersionFiles(files, moduleFolder, moduleName, currentVersion) ==
  IF files = <<>> THEN <<>>
  ELSE LET file    == Head(files)
           version == MatchVersion(file, moduleFolder, moduleName)
           rest    == FilterVersionFiles(Tail(files), moduleFolder, moduleName, currentVersion)
       IN IF version # "" /\ version # currentVersion
          THEN <<[file |-> file, version |-> version]>> \o rest
          ELSE rest

\* versionFiles.sort throws: the comparator runs as soon as there are two
\* entries, and semver.compare constructs a SemVer from each of its arguments,
\* which throws TypeError('Invalid Version') on a string the strict pattern
\* rejects
SortThrows(vf) ==
  Len(vf) >= 2 /\ \E i \in 1..Len(vf) : ~SemverFull(vf[i].version)

\* a sort that leaves the entries in the order of the listing
SortDescUnsorted(vf) == vf

\* x placed into a list already in descending order, after every entry that
\* does not compare below it (Array.prototype.sort is stable)
RECURSIVE InsertDesc(_, _)
InsertDesc(x, sorted) ==
  IF sorted = <<>> THEN <<x>>
  ELSE IF SemverCompare(x.version, Head(sorted).version) > 0
       THEN <<x>> \o sorted
       ELSE <<Head(sorted)>> \o InsertDesc(x, Tail(sorted))

\* versionFiles.sort((a, b) => semver.compare(b.version, a.version))
RECURSIVE SortDesc(_)
SortDesc(vf) ==
  IF vf = <<>> THEN <<>>
  ELSE InsertDesc(vf[Len(vf)], SortDesc(SubSeq(vf, 1, Len(vf) - 1)))

\* the early return with < in place of <=
NothingToCleanUpStrict(vf, keepVersions) ==
  ~keepVersions.nan /\ Len(vf) < keepVersions.val

\* versionFiles.length <= keepVersions: the early return of cleanupOldVersions
NothingToCleanUp(vf, keepVersions) == JsLe(Num(Len(vf)), keepVersions)

\* a slice that counts the current version among the keepVersions kept
VersionsToDeleteCountingCurrent(vf, keepVersions) ==
  Slice(SortDesc(vf), IF keepVersions.nan THEN keepVersions ELSE Num(keepVersions.val - 1))

\* versionsToDelete = versionFiles.slice(keepVersions), after the sort
VersionsToDelete(vf, keepVersions) == Slice(SortDesc(vf), keepVersions)

\* ------------------------------------------------------------ environment
\* JSON.parse(s) returns (the credential payloads the runs are given)
JsonParses(s) == s \in {"{}", "{\"type\":\"service_account\"}"}

\* object names that may be in the bucket before the run
Catalogue ==
  {"modules/foo/foo-1.0.0.zip",
   "modules/foo/foo-1.2.0.zip",
   "modules/foo/foo-1.10.0.zip",
   "modules/foo/foo-01.0.0.zip",
   "modules/foo/foo-2.0.0-rc.zip",
   "modules/foo/foobar-1.0.0.zip",
   "modules/foo/sub/foo-1.0.0.zip",
   "modules/foo/foo-1.0.0"}

\* the credential payloads the runs are given
Payloads == {"{}", "{\"type\":\"service_account\"}", "{invalid:json}", "", "not json"}

\* the runs with inputs that pass every check of the action's documentation;
\* runnerTemp is the RUNNER_TEMP environment variable, "" when it is not set
UsualInputs ==
  [bucket           : {"bkt"},
   moduleName       : {"foo"},
   moduleVersion    : {"2.0.0"},
   modulePathExists : {TRUE},
   credentials      : {"{}"},
   deleteOld        : {"true", "false"},
   keep             : {"1", "2"},
   runnerTemp       : {""}]

BaseInput ==
  [bucket |-> "bkt", moduleName |-> "foo", moduleVersion |-> "2.0.0",
   modulePathExists |-> TRUE, credentials |-> "{}", deleteOld |-> "true", keep |-> "1",
   runnerTemp |-> ""]

\* the base run with one input changed (two in the last)
OddInputs ==
  {[BaseInput EXCEPT !.bucket = "Bk"],
   [BaseInput EXCEPT !.moduleName = "f.o"],
   [BaseInput EXCEPT !.modulePathExists = FALSE],
   [BaseInput EXCEPT !.moduleVersion = "1.0"],
   [BaseInput EXCEPT !.moduleVersion = "1.2.0"],
   [BaseInput EXCEPT !.moduleVersion = "2.0.0-rc"],
   [BaseInput EXCEPT !.credentials = "{invalid:json}"],
   [BaseInput EXCEPT !.keep = ""],
   [BaseInput EXCEPT !.keep = "0"],
   [BaseInput EXCEPT !.keep = "-1"],
   [BaseInput EXCEPT !.keep = "abc"],
   [BaseInput EXCEPT !.runnerTemp = "/home/runner/_temp", !.deleteOld = "false"]}

Inputs == UsualInputs \cup OddInputs

\* all orders in which a listing may return the set S of names
Orderings(S) ==
  {f \in [1..Cardinality(S) -> S] : \A i, j \in 1..Cardinality(S) : i # j => f[i] # f[j]}

\* ------------------------------------------------------------------ state
VARIABLES
  inputs,               \* the action's inputs and the module path's existence
  store,                \* names of the objects in the bucket
  publicObjects,        \* names made public by this run
  pc,                   \* where run is
  tempCredentialsFile,  \* run's local variable, "" for null
  credentialsOnDisk,    \* a file exists at CredentialsPath
  credentialsData,      \* what that file holds
  storeAtList,          \* the bucket's content when getFiles answered
  files,                \* cleanupOldVersions: the listing
  versionFiles,         \* cleanupOldVersions: the filtered entries
  versionsToDelete,     \* cleanupOldVersions: the entries to delete
  deleteIndex,          \* cleanupOldVersions: position of the delete loop
  thrown,               \* the error on its way to run's catch, "" for none
  failed,               \* messages given to core.setFailed
  outputs,              \* values given to core.setOutput
  calls,                \* file system, archiver and object store calls issued
  infoLog               \* core.info lines

vars == <<inputs, store, publicObjects, pc, tempCredentialsFile, credentialsOnDisk, credentialsData,
          storeAtList, files, versionFiles, versionsToDelete, deleteIndex,
          thrown, failed, outputs, calls, infoLog>>

cleanupVars == <<storeAtList, files, versionFiles, versionsToDelete, deleteIndex>>

\* options of run: built once from the inputs and never assigned again
Options == ReadOptions(inputs)

Destination == DestinationKey(Options.moduleName, Options.moduleVersion)

\* process.env.RUNNER_TEMP || '/tmp'
TempDir == IF inputs.runnerTemp = "" THEN "/tmp" ELSE inputs.runnerTemp

\* path.join(tempDir, 'google-credentials.json')
CredentialsPath == TempDir \o "/google-credentials.json"

\* one call with the answer it got
Call(op, arg, result) == [op |-> op, arg |-> arg, result |-> result]

Info(msg, arg) == [msg |-> msg, arg |-> arg]

Init ==
  /\ inputs \in Inputs
  /\ store \in {S \in SUBSET Catalogue : Cardinality(S) <= MaxStored}
  /\ publicObjects = {}
  /\ pc = "getInputs"
  /\ tempCredentialsFile = ""
  /\ credentialsOnDisk = FALSE
  /\ credentialsData = ""
  /\ storeAtList = {}
  /\ files = <<>>
  /\ versionFiles = <<>>
  /\ versionsToDelete = <<>>
  /\ deleteIndex = 0
  /\ thrown = ""
  /\ failed = <<>>
  /\ outputs = <<>>
  /\ calls = <<>>
  /\ infoLog = <<>>

\* a throw inside run's try block
Throw(msg) == thrown' = msg /\ pc' = "catch"

\* run: const options = getValidatedInputs()
GetValidatedInputs ==
  /\ pc = "getInputs"
  /\ IF ValidateInputs(Options) = ""
     THEN pc' = "createCreds" /\ thrown' = thrown
     ELSE Throw(ValidateInputs(Options))
  /\ UNCHANGED <<inputs, store, publicObjects, tempCredentialsFile, credentialsOnDisk, credentialsData,
                 cleanupVars, failed, outputs, calls, infoLog>>

\* a createTempCredentialsFile that writes the payload before parsing it
CreateTempCredentialsFileWriteFirst ==
  /\ pc = "createCreds"
  /\ calls' = Append(calls, Call("writeFileSync", CredentialsPath, "ok"))
  /\ credentialsOnDisk' = TRUE
  /\ credentialsData' = Options.googleCredentialsJson
  /\ IF ~JsonParses(Options.googleCredentialsJson)
     THEN /\ Throw("Invalid Google credentials JSON")
          /\ UNCHANGED <<tempCredentialsFile, infoLog>>
     ELSE /\ tempCredentialsFile' = CredentialsPath
          /\ infoLog' = Append(infoLog, Info("Created temporary credentials file at", CredentialsPath))
          /\ pc' = "zip"
          /\ thrown' = thrown
  /\ UNCHANGED <<inputs, store, publicObjects, cleanupVars, failed, outputs>>

\* run: tempCredentialsFile = createTempCredentialsFile(...); a failed
\* writeFileSync may or may not leave a file behind, and what it leaves is
\* not the payload
CreateTempCredentialsFile ==
  /\ pc = "createCreds"
  /\ IF ~JsonParses(Options.googleCredentialsJson)
     THEN /\ Throw("Invalid Google credentials JSON")
          /\ UNCHANGED <<tempCredentialsFile, credentialsOnDisk, credentialsData,
                         calls, infoLog>>
     ELSE \E outcome \in {"written", "failed, no file", "failed, file left"} :
            /\ calls' = Append(calls, Call("writeFileSync", CredentialsPath,
                                          IF outcome = "written" THEN "ok" ELSE "error"))
            /\ IF outcome = "written"
               THEN /\ credentialsOnDisk' = TRUE
                    /\ credentialsData' = Options.googleCredentialsJson
                    /\ tempCredentialsFile' = CredentialsPath
                    /\ infoLog' = Append(infoLog, Info("Created temporary credentials file at", CredentialsPath))
                    /\ pc' = "zip"
                    /\ thrown' = thrown
               ELSE /\ credentialsOnDisk' = (outcome = "failed, file left")
                    /\ credentialsData' = ""
                    /\ Throw("Invalid Google credentials JSON")
                    /\ UNCHANGED <<tempCredentialsFile, infoLog>>
  /\ UNCHANGED <<inputs, store, publicObjects, cleanupVars, failed, outputs>>

\* a createZipArchive that does not look for its output file
CreateZipArchiveUnverified ==
  /\ pc = "zip"
  /\ IF ~Options.modulePathExists
     THEN /\ Throw("Source path does not exist")
          /\ calls' = calls
          /\ infoLog' = Append(infoLog, Info("Creating zip file for module", Options.moduleName))
     ELSE \E outcome \in {"ok", "zip fails", "no output"} :
            /\ calls' = Append(calls, Call("zip", ZipFileName(Options.moduleName, Options.moduleVersion),
                                          IF outcome = "zip fails" THEN "error" ELSE outcome))
            /\ IF outcome # "zip fails"
               THEN /\ infoLog' = infoLog
                         \o <<Info("Creating zip file for module", Options.moduleName),
                              Info("Uploading to GCS bucket", Options.bucketName)>>
                    /\ pc' = "hash"
                    /\ thrown' = thrown
               ELSE /\ infoLog' = Append(infoLog, Info("Creating zip file for module", Options.moduleName))
                    /\ Throw("zip failed")
  /\ UNCHANGED <<inputs, store, publicObjects, tempCredentialsFile, credentialsOnDisk,
                 credentialsData, cleanupVars, failed, outputs>>

\* run: await createZipArchive(options.modulePath, zipFilePath)
CreateZipArchive ==
  /\ pc = "zip"
  /\ IF ~Options.modulePathExists
     THEN /\ Throw("Source path does not exist")
          /\ calls' = calls
          /\ infoLog' = Append(infoLog, Info("Creating zip file for module", Options.moduleName))
     ELSE \E outcome \in {"ok", "zip fails", "no output"} :
            /\ calls' = Append(calls, Call("zip", ZipFileName(Options.moduleName, Options.moduleVersion),
                                          IF outcome = "zip fails" THEN "error" ELSE outcome))
            /\ IF outcome = "ok"
               THEN /\ infoLog' = infoLog
                         \o <<Info("Creating zip file for module", Options.moduleName),
                              Info("Uploading to GCS bucket", Options.bucketName)>>
                    /\ pc' = "hash"
                    /\ thrown' = thrown
               ELSE /\ infoLog' = Append(infoLog, Info("Creating zip file for module", Options.moduleName))
                    /\ Throw(IF outcome = "zip fails" THEN "zip failed" ELSE "Failed to create zip file")
  /\ UNCHANGED <<inputs, store, publicObjects, tempCredentialsFile, credentialsOnDisk, credentialsData,
                 cleanupVars, failed, outputs>>

\* processModuleUpload: const fileHash = await calculateFileHash(zipFilePath)
CalculateFileHash ==
  /\ pc = "hash"
  /\ \E ok \in BOOLEAN :
       /\ calls' = Append(calls, Call("calculateFileHash",
                                     ZipFileName(Options.moduleName, Options.moduleVersion),
                                     IF ok THEN "ok" ELSE "error"))
       /\ IF ok
          THEN /\ infoLog' = Append(infoLog, Info("File integrity hash (SHA-256)", ""))
               /\ pc' = "upload"
               /\ thrown' = thrown
          ELSE /\ infoLog' = infoLog
               /\ Throw("hash failed")
  /\ UNCHANGED <<inputs, store, publicObjects, tempCredentialsFile, credentialsOnDisk, credentialsData,
                 cleanupVars, failed, outputs>>

\* an upload that is tried a second time after it failed
UploadRetrying ==
  /\ pc = "upload"
  /\ infoLog' = Append(infoLog, Info("Uploading to:", Destination))
  /\ \E ok \in BOOLEAN :
       /\ calls' = Append(calls, Call("upload", Destination, IF ok THEN "ok" ELSE "error"))
       /\ IF ok
          THEN store' = store \cup {Destination} /\ pc' = "makePublic" /\ thrown' = thrown
          ELSE IF calls = <<>> \/ calls[Len(calls)].op # "upload"
          THEN store' = store /\ pc' = "upload" /\ thrown' = thrown
          ELSE store' = store /\ Throw("upload failed")
  /\ UNCHANGED <<inputs, publicObjects, tempCredentialsFile, credentialsOnDisk,
                 credentialsData, cleanupVars, failed, outputs>>

\* uploadToGCS: await bucket.upload(filePath, options)
Upload ==
  /\ pc = "upload"
  /\ infoLog' = Append(infoLog, Info("Uploading to:", Destination))
  /\ \E ok \in BOOLEAN :
       /\ calls' = Append(calls, Call("upload", Destination, IF ok THEN "ok" ELSE "error"))
       /\ IF ok
          THEN store' = store \cup {Destination} /\ pc' = "makePublic" /\ thrown' = thrown
          ELSE store' = store /\ Throw("upload failed")
  /\ UNCHANGED <<inputs, publicObjects, tempCredentialsFile, credentialsOnDisk, credentialsData,
                 cleanupVars, failed, outputs>>

\* uploadToGCS: await bucket.file(destination).makePublic()
MakePublic ==
  /\ pc = "makePublic"
  /\ \E ok \in BOOLEAN :
       /\ calls' = Append(calls, Call("makePublic", Destination, IF ok THEN "ok" ELSE "error"))
       /\ IF ok
          THEN publicObjects' = publicObjects \cup {Destination} /\ pc' = "exists" /\ thrown' = thrown
          ELSE publicObjects' = publicObjects /\ Throw("makePublic failed")
  /\ UNCHANGED <<inputs, store, tempCredentialsFile, credentialsOnDisk, credentialsData,
                 cleanupVars, failed, outputs, infoLog>>

\* the existence check with its answer ignored
ExistsUnverified ==
  /\ pc = "exists"
  /\ \E answer \in {"true", "false", "error"} :
       /\ calls' = Append(calls, Call("exists", Destination, answer))
       /\ IF answer = "error"
          THEN Throw("exists failed")
          ELSE /\ pc' = IF Options.deleteOldVersions THEN "list" ELSE "outputs"
               /\ thrown' = thrown
  /\ UNCHANGED <<inputs, store, publicObjects, tempCredentialsFile, credentialsOnDisk, credentialsData,
                 cleanupVars, failed, outputs, infoLog>>

\* a processModuleUpload that cleans up whatever deleteOldVersions says
ExistsAlwaysCleans ==
  /\ pc = "exists"
  /\ \E answer \in {"true", "false", "error"} :
       /\ calls' = Append(calls, Call("exists", Destination, answer))
       /\ CASE answer = "true" -> pc' = "list" /\ thrown' = thrown
            [] answer = "false" -> Throw("Upload verification failed")
            [] answer = "error" -> Throw("exists failed")
  /\ UNCHANGED <<inputs, store, publicObjects, tempCredentialsFile, credentialsOnDisk,
                 credentialsData, cleanupVars, failed, outputs, infoLog>>

\* uploadToGCS: const [exists] = await bucket.file(destination).exists(), the
\* verification, and processModuleUpload's test of deleteOldVersions
Exists ==
  /\ pc = "exists"
  /\ \E answer \in {"true", "false", "error"} :
       /\ calls' = Append(calls, Call("exists", Destination, answer))
       /\ CASE answer = "true" ->
                 /\ pc' = IF Options.deleteOldVersions THEN "list" ELSE "outputs"
                 /\ thrown' = thrown
            [] answer = "false" -> Throw("Upload verification failed")
            [] answer = "error" -> Throw("exists failed")
  /\ UNCHANGED <<inputs, store, publicObjects, tempCredentialsFile, credentialsOnDisk, credentialsData,
                 cleanupVars, failed, outputs, infoLog>>

\* the names in the bucket that bucket.getFiles({prefix}) returns
Listed(S, prefix) == {k \in S : StartsWith(k, prefix)}

\* cleanupOldVersions up to its first delete: await bucket.getFiles, the
\* filter loop, the early return, the sort and the slice
GetFiles ==
  /\ pc = "list"
  /\ \/ /\ calls' = Append(calls, Call("getFiles", ModuleFolder(Options.moduleName), "error"))
        /\ Throw("getFiles failed")
        /\ UNCHANGED <<cleanupVars, infoLog>>
     \/ \E listing \in Orderings(Listed(store, ModuleFolder(Options.moduleName))) :
          LET vf == FilterVersionFiles(listing, ModuleFolder(Options.moduleName),
                                       Options.moduleName, Options.moduleVersion)
              del == VersionsToDelete(vf, Options.keepVersions)
          IN /\ calls' = Append(calls, Call("getFiles", ModuleFolder(Options.moduleName), "ok"))
             /\ files' = listing
             /\ storeAtList' = store
             /\ IF NothingToCleanUp(vf, Options.keepVersions)
                THEN /\ versionFiles' = vf
                     /\ infoLog' = Append(infoLog, Info("No old versions to clean up", ""))
                     /\ pc' = "outputs"
                     /\ thrown' = thrown
                     /\ UNCHANGED <<versionsToDelete, deleteIndex>>
                ELSE IF SortThrows(vf)
                THEN /\ versionFiles' = vf
                     /\ Throw("Invalid Version")
                     /\ UNCHANGED <<versionsToDelete, deleteIndex, infoLog>>
                ELSE /\ versionFiles' = SortDesc(vf)
                     /\ versionsToDelete' = del
                     /\ deleteIndex' = 1
                     /\ thrown' = thrown
                     /\ IF del = <<>>
                        THEN /\ infoLog' = infoLog
                                  \o <<Info("Cleaning up old version(s)", ""),
                                       Info("Successfully cleaned up old versions", "")>>
                             /\ pc' = "outputs"
                        ELSE /\ infoLog' = Append(infoLog, Info("Cleaning up old version(s)", ""))
                             /\ pc' = "delete"
  /\ UNCHANGED <<inputs, store, publicObjects, tempCredentialsFile, credentialsOnDisk, credentialsData,
                 failed, outputs>>

\* a delete loop that goes on to the next entry after a failed delete
DeleteNextBestEffort ==
  /\ pc = "delete"
  /\ deleteIndex <= Len(versionsToDelete)
  /\ LET name == versionsToDelete[deleteIndex].file
     IN \E ok \in BOOLEAN :
          /\ calls' = Append(calls, Call("delete", name, IF ok THEN "ok" ELSE "error"))
          /\ store' = IF ok THEN store \ {name} ELSE store
          /\ deleteIndex' = deleteIndex + 1
          /\ thrown' = thrown
          /\ IF deleteIndex = Len(versionsToDelete)
             THEN /\ infoLog' = infoLog
                       \o <<Info("Deleting old version:", name),
                            Info("Successfully cleaned up old versions", "")>>
                  /\ pc' = "outputs"
             ELSE /\ infoLog' = Append(infoLog, Info("Deleting old version:", name))
                  /\ pc' = "delete"
  /\ UNCHANGED <<inputs, publicObjects, tempCredentialsFile, credentialsOnDisk, credentialsData,
                 storeAtList, files, versionFiles, versionsToDelete, failed, outputs>>

\* a delete the store acknowledges without removing the object
DeleteNextNoEffect ==
  /\ pc = "delete"
  /\ deleteIndex <= Len(versionsToDelete)
  /\ LET name == versionsToDelete[deleteIndex].file
     IN \E ok \in BOOLEAN :
          /\ calls' = Append(calls, Call("delete", name, IF ok THEN "ok" ELSE "error"))
          /\ store' = store
          /\ infoLog' = Append(infoLog, Info("Deleting old version:", name))
          /\ IF ok
             THEN /\ deleteIndex' = deleteIndex + 1
                  /\ thrown' = thrown
                  /\ pc' = IF deleteIndex = Len(versionsToDelete) THEN "outputs" ELSE "delete"
             ELSE /\ deleteIndex' = deleteIndex
                  /\ Throw("delete failed")
  /\ UNCHANGED <<inputs, publicObjects, tempCredentialsFile, credentialsOnDisk, credentialsData,
                 storeAtList, files, versionFiles, versionsToDelete, failed, outputs>>

\* a delete loop that writes no line for the objects it deletes
DeleteNextSilent ==
  /\ pc = "delete"
  /\ deleteIndex <= Len(versionsToDelete)
  /\ LET name == versionsToDelete[deleteIndex].file
     IN \E ok \in BOOLEAN :
          /\ calls' = Append(calls, Call("delete", name, IF ok THEN "ok" ELSE "error"))
          /\ IF ok
             THEN /\ store' = store \ {name}
                  /\ deleteIndex' = deleteIndex + 1
                  /\ thrown' = thrown
                  /\ IF deleteIndex = Len(versionsToDelete)
                     THEN /\ infoLog' = Append(infoLog, Info("Successfully cleaned up old versions", ""))
                          /\ pc' = "outputs"
                     ELSE /\ infoLog' = infoLog
                          /\ pc' = "delete"
             ELSE /\ store' = store
                  /\ deleteIndex' = deleteIndex
                  /\ infoLog' = infoLog
                  /\ Throw("delete failed")
  /\ UNCHANGED <<inputs, publicObjects, tempCredentialsFile, credentialsOnDisk, credentialsData,
                 storeAtList, files, versionFiles, versionsToDelete, failed, outputs>>

\* one turn of the delete loop: core.info, await versionFile.file.delete()
DeleteNext ==
  /\ pc = "delete"
  /\ deleteIndex <= Len(versionsToDelete)
  /\ LET name == versionsToDelete[deleteIndex].file
     IN \E ok \in BOOLEAN :
          /\ calls' = Append(calls, Call("delete", name, IF ok THEN "ok" ELSE "error"))
          /\ IF ok
             THEN /\ store' = store \ {name}
                  /\ deleteIndex' = deleteIndex + 1
                  /\ thrown' = thrown
                  /\ IF deleteIndex = Len(versionsToDelete)
                     THEN /\ infoLog' = infoLog
                               \o <<Info("Deleting old version:", name),
                                    Info("Successfully cleaned up old versions", "")>>
                          /\ pc' = "outputs"
                     ELSE /\ infoLog' = Append(infoLog, Info("Deleting old version:", name))
                          /\ pc' = "delete"
             ELSE /\ store' = store
                  /\ deleteIndex' = deleteIndex
                  /\ infoLog' = Append(infoLog, Info("Deleting old version:", name))
                  /\ Throw("delete failed")
  /\ UNCHANGED <<inputs, publicObjects, tempCredentialsFile, credentialsOnDisk, credentialsData,
                 storeAtList, files, versionFiles, versionsToDelete, failed, outputs>>

\* run, after processModuleUpload returned: the two outputs and the last line
SetOutputs ==
  /\ pc = "outputs"
  /\ outputs' = outputs
       \o <<[name |-> "module-url",
             value |-> ModuleUrl(Options.bucketName, Options.moduleName, Options.moduleVersion)],
            [name |-> "version", value |-> Options.moduleVersion]>>
  /\ infoLog' = Append(infoLog, Info("Successfully published module to",
                  ModuleUrl(Options.bucketName, Options.moduleName, Options.moduleVersion)))
  /\ pc' = "finally"
  /\ UNCHANGED <<inputs, store, publicObjects, tempCredentialsFile, credentialsOnDisk, credentialsData,
                 cleanupVars, thrown, failed, calls>>

\* run's catch block: core.setFailed(error.message)
Catch ==
  /\ pc = "catch"
  /\ failed' = Append(failed, thrown)
  /\ pc' = "finally"
  /\ UNCHANGED <<inputs, store, publicObjects, tempCredentialsFile, credentialsOnDisk, credentialsData,
                 cleanupVars, thrown, outputs, calls, infoLog>>

\* run's finally block: the credentials file is unlinked when the variable
\* is set and the file exists.  fs.unlinkSync is not inside a try: when it
\* throws, the error leaves run
Finally ==
  /\ pc = "finally"
  /\ IF tempCredentialsFile # "" /\ credentialsOnDisk
     THEN \E ok \in BOOLEAN :
            /\ calls' = Append(calls, Call("unlinkSync", tempCredentialsFile,
                                          IF ok THEN "ok" ELSE "error"))
            /\ credentialsOnDisk' = ~ok
            /\ credentialsData' = IF ok THEN "" ELSE credentialsData
            /\ pc' = IF ok THEN "done" ELSE "raised"
     ELSE /\ pc' = "done"
          /\ UNCHANGED <<calls, credentialsOnDisk, credentialsData>>
  /\ UNCHANGED <<inputs, store, publicObjects, tempCredentialsFile,
                 cleanupVars, thrown, failed, outputs, infoLog>>

Next ==
  \/ GetValidatedInputs
  \/ CreateTempCredentialsFile
  \/ CreateZipArchive
  \/ CalculateFileHash
  \/ Upload
  \/ MakePublic
  \/ Exists
  \/ GetFiles
  \/ DeleteNext
  \/ SetOutputs
  \/ Catch
  \/ Finally

Spec == Init /\ [][Next]_vars

\* ------------------------------------------------------ documented scenarios
\* the worked example of the retention rule: module vpc published at 2.0.0,
\* keeping 2, with 1.0.0 to 1.3.0 stored
VpcScenario ==
  [inputs |-> [bucket |-> "bkt", moduleName |-> "vpc", moduleVersion |-> "2.0.0",
               modulePathExists |-> TRUE, credentials |-> "{}", deleteOld |-> "true",
               keep |-> "2", runnerTemp |-> ""],
   store  |-> {"modules/vpc/vpc-1.0.0.zip", "modules/vpc/vpc-1.1.0.zip",
               "modules/vpc/vpc-1.2.0.zip", "modules/vpc/vpc-1.3.0.zip"}]

\* the listing of the cleanupOldVersions test: test-module at 1.0.0, keeping
\* 2, with 1.0.0, 0.9.0, 0.8.0 and 0.7.0 stored
TestModuleScenario ==
  [inputs |-> [bucket |-> "test-bucket", moduleName |-> "test-module",
               moduleVersion |-> "1.0.0", modulePathExists |-> TRUE,
               credentials |-> "{}", deleteOld |-> "true", keep |-> "2",
               runnerTemp |-> ""],
   store  |-> {"modules/test-module/test-module-1.0.0.zip",
               "modules/test-module/test-module-0.9.0.zip",
               "modules/test-module/test-module-0.8.0.zip",
               "modules/test-module/test-module-0.7.0.zip"}]

Scenarios == {VpcScenario, TestModuleScenario}

ScenarioInit ==
  /\ \E sc \in Scenarios : inputs = sc.inputs /\ store = sc.store
  /\ publicObjects = {}
  /\ pc = "getInputs"
  /\ tempCredentialsFile = ""
  /\ credentialsOnDisk = FALSE
  /\ credentialsData = ""
  /\ storeAtList = {}
  /\ files = <<>>
  /\ versionFiles = <<>>
  /\ versionsToDelete = <<>>
  /\ deleteIndex = 0
  /\ thrown = ""
  /\ failed = <<>>
  /\ outputs = <<>>
  /\ calls = <<>>
  /\ infoLog = <<>>

ScenarioSpec == ScenarioInit /\ [][Next]_vars

\* ------------------------------------------------------ the pass made again
\* cleanupOldVersions called again with the same arguments, after a pass that
\* returned or that stopped at a failed delete: its locals start afresh
RerunCleanup ==
  /\ \/ pc = "outputs" /\ Options.deleteOldVersions
     \/ pc = "catch" /\ thrown = "delete failed"
  /\ Len(SelectSeq(calls, LAMBDA c : c.op = "getFiles")) < MaxPasses
  /\ pc' = "list"
  /\ thrown' = ""
  /\ storeAtList' = {}
  /\ files' = <<>>
  /\ versionFiles' = <<>>
  /\ versionsToDelete' = <<>>
  /\ deleteIndex' = 0
  /\ UNCHANGED <<inputs, store, publicObjects, tempCredentialsFile, credentialsOnDisk,
                 credentialsData, failed, outputs, calls, infoLog>>

RerunNext ==
  \/ GetValidatedInputs
  \/ CreateTempCredentialsFile
  \/ CreateZipArchive
  \/ CalculateFileHash
  \/ Upload
  \/ MakePublic
  \/ Exists
  \/ GetFiles
  \/ DeleteNext
  \/ RerunCleanup
  \/ SetOutputs
  \/ Catch
  \/ Finally

RerunSpec == ScenarioInit /\ [][RerunNext]_vars

\* ------------------------------------------------------- the first steps alone
\* n copies of the character c
RECURSIVE Repeat(_, _)
Repeat(c, n) == IF n = 0 THEN "" ELSE c \o Repeat(c, n - 1)

\* bucket names of 1 to 64 characters, with and without characters the
\* pattern rejects at the ends and in the middle
BucketNames ==
  {first \o middle \o last :
     first  \in {"", "a", "1", "A", "-"},
     middle \in {"", "b", "B", "b_.-9", "b!c", Repeat("x", 61), Repeat("x", 62)},
     last   \in {"z", "9", "Z", "_", "."}}

\* getValidatedInputs, createTempCredentialsFile and createZipArchive are
\* exported: each is entered on its own, with the arguments it reads
UnitEntries ==
  {[pc |-> "getInputs", inputs |-> [BaseInput EXCEPT !.bucket = b]] : b \in BucketNames}
  \cup {[pc |-> "createCreds",
          inputs |-> [BaseInput EXCEPT !.credentials = c, !.runnerTemp = t]] :
            c \in Payloads, t \in {"", "/home/runner/_temp"}}
  \cup {[pc |-> "zip", inputs |-> [BaseInput EXCEPT !.modulePathExists = e]] : e \in BOOLEAN}

UnitInit ==
  /\ \E entry \in UnitEntries : pc = entry.pc /\ inputs = entry.inputs
  /\ store = {}
  /\ publicObjects = {}
  /\ tempCredentialsFile = ""
  /\ credentialsOnDisk = FALSE
  /\ credentialsData = ""
  /\ storeAtList = {}
  /\ files = <<>>
  /\ versionFiles = <<>>
  /\ versionsToDelete = <<>>
  /\ deleteIndex = 0
  /\ thrown = ""
  /\ failed = <<>>
  /\ outputs = <<>>
  /\ calls = <<>>
  /\ infoLog = <<>>

UnitNext ==
  \/ GetValidatedInputs
  \/ CreateTempCredentialsFile
  \/ CreateZipArchive

UnitSpec == UnitInit /\ [][UnitNext]_vars

\* ----------------------------------------------------------------- claims
\* the calls of one kind, in the order issued
CallsOf(op) == SelectSeq(calls, LAMBDA c : c.op = op)

\* the names whose delete succeeded
DeletedNames == {c.arg : c \in {calls[i] : i \in {j \in 1..Len(calls) :
                                   calls[j].op = "delete" /\ calls[j].result = "ok"}}}

\* bucket.getFiles has answered with a listing
ListingReturned == \E i \in 1..Len(calls) : calls[i].op = "getFiles" /\ calls[i].result = "ok"

Logged(msg) == \E i \in 1..Len(infoLog) : infoLog[i].msg = msg

IsPositiveInteger(n) == ~n.nan /\ n.val >= 1

\* C1.  Current-version immunity: no delete is ever issued for the key of the
\* version being published, and once uploaded that key stays in the bucket.
C1_CurrentVersionImmunity ==
  /\ \A i \in 1..Len(calls) : calls[i].op = "delete" => calls[i].arg # Destination
  /\ (\E i \in 1..Len(calls) : calls[i].op = "upload" /\ calls[i].result = "ok")
       => Destination \in store

\* a finished run that published 1.2.0 next to a higher and a lower stored
\* version and deleted something
C1_Witness ==
  /\ pc = "done"
  /\ inputs.moduleVersion = "1.2.0"
  /\ "modules/foo/foo-1.10.0.zip" \in store
  /\ "modules/foo/foo-1.0.0.zip" \in DeletedNames
  /\ Destination \in storeAtList
  /\ Destination \in store

\* C2.  Retention overflow selection: when the pass met no object store
\* failure and the N candidates outnumber keepVersions, the names deleted are
\* exactly the N - keepVersions candidates of lowest precedence, and the other
\* candidates and the current version remain.
C2_OverflowSelection ==
  LET keep == Options.keepVersions
      n    == Len(versionFiles)
      kept == {i \in 1..n : versionFiles[i].file \notin DeletedNames}
      gone == {i \in 1..n : versionFiles[i].file \in DeletedNames}
  IN (/\ pc = "done"
      /\ ListingReturned
      /\ thrown \notin {"getFiles failed", "delete failed"}
      /\ IsPositiveInteger(keep)
      /\ n > keep.val)
     => /\ Cardinality(gone) = n - keep.val
        /\ Cardinality(DeletedNames) = n - keep.val
        /\ \A d \in gone : \A k \in kept :
             CompareMain(MainOf(versionFiles[d].version), MainOf(versionFiles[k].version)) < 0
        /\ \A k \in kept : versionFiles[k].file \in store
        /\ Destination \in store

C4_KeepVersionsValidated ==
  ~IsPositiveInteger(Options.keepVersions)
  => /\ pc # "getInputs" => thrown = "Invalid keep-versions value"
     /\ CallsOf("getFiles") = <<>>
     /\ CallsOf("delete") = <<>>

\* C5.  Upload verification failure: after an existence check that answered
\* false the run fails with "Upload verification failed", and neither the
\* listing nor a delete is ever invoked.
C5_VerificationFailure ==
  (\E i \in 1..Len(calls) : calls[i].op = "exists" /\ calls[i].result = "false")
  => /\ thrown = "Upload verification failed"
     /\ CallsOf("getFiles") = <<>>
     /\ CallsOf("delete") = <<>>
     /\ pc \in {"catch", "finally", "done", "raised"}
     /\ pc \in {"finally", "done", "raised"} => failed = <<"Upload verification failed">>
     /\ outputs = <<>>

\* a finished run with delete-old-versions on whose verification failed
C5_Witness ==
  /\ pc = "done"
  /\ Options.deleteOldVersions
  /\ \E i \in 1..Len(calls) : calls[i].op = "exists" /\ calls[i].result = "false"
  /\ failed = <<"Upload verification failed">>

\* C6.  Credential file cleanup: when run has finished, no file is left at the
\* credentials path, whatever the exit path.
C6_CredentialsRemoved == pc = "done" => ~credentialsOnDisk

\* the keep-versions input is empty (the default applies) or a positive integer
KeepInputValid(k) == k = "" \/ (IsDigits(k) /\ DecVal(k) >= 1)

InvalidConfiguration ==
  \/ ~BucketRegex(inputs.bucket)
  \/ ~ModuleNameRegex(inputs.moduleName)
  \/ ~inputs.modulePathExists
  \/ ~SemverValid(inputs.moduleVersion)
  \/ ~KeepInputValid(inputs.keep)

\* C7.  Configuration errors precede all side effects: with an invalid bucket
\* name, module name, module path, version or keep-versions the run fails in
\* validation and issues no file system, archiver or object store call.
C7_ConfigErrorsFirst ==
  InvalidConfiguration
  => /\ calls = <<>>
     /\ ~credentialsOnDisk
     /\ pc # "getInputs" => thrown # ""

\* C8.  Fail-fast deletion: after a failed delete the error is on its way out,
\* no other delete follows, each earlier entry was deleted once and in order,
\* and the bucket is the listed one less exactly those earlier entries.
C8_FailFastDeletion ==
  \A i \in 1..Len(calls) :
    (calls[i].op = "delete" /\ calls[i].result = "error")
    => LET d == CallsOf("delete")
       IN /\ thrown = "delete failed"
          /\ pc \in {"catch", "finally", "done", "raised"}
          /\ \A j \in (i + 1)..Len(calls) : calls[j].op # "delete"
          /\ Len(d) = deleteIndex
          /\ \A j \in 1..Len(d) :
               /\ d[j].arg = versionsToDelete[j].file
               /\ j < Len(d) => d[j].result = "ok"
          /\ \A j, k \in 1..Len(d) : j # k => d[j].arg # d[k].arg
          /\ store = storeAtList \ {versionsToDelete[j].file : j \in 1..(deleteIndex - 1)}
          /\ Destination \in store

\* a finished run whose second of three deletes failed
C8_Witness ==
  /\ pc = "done"
  /\ thrown = "delete failed"
  /\ deleteIndex = 2
  /\ Len(versionsToDelete) = 3
  /\ failed = <<"delete failed">>

\* names that are not <moduleFolder>/<moduleName>-<version>.zip for module foo
UnrelatedNames ==
  {"modules/foo/foobar-1.0.0.zip",
   "modules/foo/sub/foo-1.0.0.zip",
   "modules/foo/foo-1.0.0"}

\* C9.  Exclusion correctness: a name that is not exactly
\* <moduleFolder>/<moduleName>-<version>.zip is never a candidate, changes
\* neither the candidates nor their count, is never deleted and stays in the
\* bucket.
C9_ExclusionCorrectness ==
  /\ \A i \in 1..Len(versionFiles) : versionFiles[i].file \notin UnrelatedNames
  /\ \A i \in 1..Len(versionsToDelete) : versionsToDelete[i].file \notin UnrelatedNames
  /\ \A i \in 1..Len(calls) : calls[i].op = "delete" => calls[i].arg \notin UnrelatedNames
  /\ ListingReturned =>
       /\ (UnrelatedNames \cap storeAtList) \subseteq store
       /\ LET o      == Options
              others == FilterVersionFiles(SelectSeq(files, LAMBDA k : k \notin UnrelatedNames),
                                           ModuleFolder(o.moduleName),
                                           o.moduleName, o.moduleVersion)
          IN /\ Len(versionFiles) = Len(others)
             /\ {versionFiles[i] : i \in 1..Len(versionFiles)} = {others[i] : i \in 1..Len(others)}

\* a finished, successful pass that deleted something while two unrelated
\* names were listed
C9_Witness ==
  /\ pc = "done"
  /\ failed = <<>>
  /\ DeletedNames # {}
  /\ Cardinality(UnrelatedNames \cap {files[i] : i \in 1..Len(files)}) >= 1
  /\ (UnrelatedNames \cap storeAtList) \subseteq store

\* C10.  Round-trip naming: for every version the validation accepts, the key
\* processModuleUpload builds and uploads is matched by the retention pattern
\* and the version extracted from it is the version given.
C10_RoundTripNaming ==
  (/\ ValidateInputs(Options) = ""
   /\ \E i \in 1..Len(calls) : calls[i].op = "upload" /\ calls[i].result = "ok")
  => MatchVersion(Destination, ModuleFolder(Options.moduleName), Options.moduleName)
       = Options.moduleVersion

\* the versions of a list of entries
VersionsOf(vf) == [i \in 1..Len(vf) |-> vf[i].version]

\* <<major, minor, patch>> of a is below that of b, read as numbers
NumericallyBelow(a, b) == CompareMain(MainOf(a), MainOf(b)) < 0

\* the versions 1.2.0, 1.10.0, 1.9.0 after the sort
SortedExample ==
  VersionsOf(SortDesc(<<[file |-> "a", version |-> "1.2.0"],
                        [file |-> "b", version |-> "1.10.0"],
                        [file |-> "c", version |-> "1.9.0"]>>))

\* C11.  Ordering correctness: the sort puts the candidates in descending
\* order of (major, minor, patch) read as numbers, so [1.2.0, 1.10.0, 1.9.0]
\* becomes [1.10.0, 1.9.0, 1.2.0]; once the sort has run, the sorted list
\* holds the same candidates, and every candidate chosen for deletion is
\* numerically below every candidate that is kept.
C11_OrderingCorrectness ==
  /\ SortedExample = <<"1.10.0", "1.9.0", "1.2.0">>
  /\ Logged("Cleaning up old version(s)") =>
       LET n      == Len(versionFiles)
           chosen == {versionsToDelete[i] : i \in 1..Len(versionsToDelete)}
           all    == {versionFiles[i] : i \in 1..n}
           o      == Options
           listed == FilterVersionFiles(files, ModuleFolder(o.moduleName),
                                        o.moduleName, o.moduleVersion)
       IN /\ \A i, j \in 1..n :
               i < j => NumericallyBelow(versionFiles[j].version, versionFiles[i].version)
          /\ all = {listed[i] : i \in 1..Len(listed)}
          /\ n = Len(listed)
          /\ chosen \subseteq all
          /\ \A d \in chosen : \A k \in all \ chosen :
               NumericallyBelow(d.version, k.version)
          /\ \A k \in all \ chosen : k.file \in store

\* a finished, successful pass that kept 1.10.0 and deleted 1.2.0
C11_Witness ==
  /\ pc = "done"
  /\ failed = <<>>
  /\ "modules/foo/foo-1.10.0.zip" \in store
  /\ "modules/foo/foo-1.2.0.zip" \in DeletedNames
  /\ IsPositiveInteger(Options.keepVersions)

\* positions in calls of the calls of one kind
PositionsOf(op) == {i \in 1..Len(calls) : calls[i].op = op}

VersionObjects ==
  {k \in store : MatchVersion(k, ModuleFolder(Options.moduleName), Options.moduleName) # ""}

\* C13.  Documented keepVersions: the count includes the current version, so
\* after a successful pass at most keepVersions version objects of the module
\* remain, the current one among them.
C13_KeepCountIncludesCurrent ==
  (/\ pc = "done"
   /\ failed = <<>>
   /\ ListingReturned
   /\ IsPositiveInteger(Options.keepVersions))
  => /\ Destination \in VersionObjects
     /\ Cardinality(VersionObjects) <= Options.keepVersions.val

\* C14.  Retention is opt-in: with delete-old-versions off the run uploads and
\* issues no listing and no delete; with it on, cleanupOldVersions runs at most
\* once, only after the upload was made and verified, on the folder
\* modules/<moduleName> and for the module name and version of the run, and
\* exactly once in a run that succeeds.
C14_RetentionOptIn ==
  LET on == inputs.deleteOld = "true"
  IN /\ ~on => /\ PositionsOf("getFiles") = {}
                /\ PositionsOf("delete") = {}
                /\ files = <<>>
                /\ versionsToDelete = <<>>
     /\ Cardinality(PositionsOf("getFiles")) <= 1
     /\ \A i \in PositionsOf("getFiles") :
          /\ calls[i].arg = "modules/" \o inputs.moduleName
          /\ \E j \in PositionsOf("upload") : j < i /\ calls[j].result = "ok"
          /\ \E j \in PositionsOf("exists") : j < i /\ calls[j].result = "true"
     /\ \A i \in 1..Len(versionFiles) :
          /\ versionFiles[i].file
               = "modules/" \o inputs.moduleName \o "/" \o inputs.moduleName \o "-"
                   \o versionFiles[i].version \o ".zip"
          /\ versionFiles[i].version # inputs.moduleVersion
     /\ (on /\ pc = "done" /\ failed = <<>>) => Cardinality(PositionsOf("getFiles")) = 1

\* a successful run with delete-old-versions off over a bucket that holds two
\* older versions
C14_Witness ==
  /\ pc = "done"
  /\ failed = <<>>
  /\ inputs.deleteOld = "false"
  /\ {"modules/foo/foo-1.0.0.zip", "modules/foo/foo-1.2.0.zip"} \subseteq store
  /\ Destination \in store

\* C15.  Top-level outcome: run never raises to its caller, and when it has
\* finished either setFailed was called once, with the error's message, and no
\* output was set, or setFailed was not called and both outputs were set,
\* module-url in gs://<bucket>/modules/<name>/<name>-<version>.zip form.
C15_RunOutcome ==
  /\ pc # "raised"
  /\ pc = "done" =>
       \/ /\ thrown # ""
          /\ failed = <<thrown>>
          /\ outputs = <<>>
       \/ /\ thrown = ""
          /\ failed = <<>>
          /\ outputs = <<[name |-> "module-url",
                          value |-> "gs://" \o inputs.bucket \o "/modules/" \o inputs.moduleName
                                      \o "/" \o inputs.moduleName \o "-"
                                      \o inputs.moduleVersion \o ".zip"],
                         [name |-> "version", value |-> inputs.moduleVersion]>>

\* C16.  Upload stage order: the object is made public only after its
\* existence was verified, and never when the verification failed.
C16_VerifiedBeforePublic ==
  /\ \A i \in PositionsOf("makePublic") :
       \E j \in PositionsOf("exists") : j < i /\ calls[j].result = "true"
  /\ (\E j \in PositionsOf("exists") : calls[j].result = "false")
       => Destination \notin publicObjects

\* C17.  Archiver failure signalling: once the archive step has run, a missing
\* source gave "Source path does not exist" with no zip command issued, a zip
\* command that left no output file gave "Failed to create zip file", and the
\* step returned only when the source existed and the output file was there.
C17_ArchiverSignalling ==
  Logged("Creating zip file for module") =>
    /\ Cardinality(PositionsOf("zip")) <= 1
    /\ ~inputs.modulePathExists =>
         /\ PositionsOf("zip") = {}
         /\ thrown = "Source path does not exist"
         /\ pc = "catch"
    /\ \A i \in PositionsOf("zip") :
         /\ inputs.modulePathExists
         /\ calls[i].arg = inputs.moduleName \o "-" \o inputs.moduleVersion \o ".zip"
         /\ calls[i].result = "no output" =>
              thrown = "Failed to create zip file" /\ pc = "catch"
         /\ calls[i].result = "error" => thrown = "zip failed" /\ pc = "catch"
         /\ calls[i].result = "ok" => thrown = "" /\ pc = "hash"
    /\ pc = "hash" =>
         /\ inputs.modulePathExists
         /\ \E i \in PositionsOf("zip") : calls[i].result = "ok"

\* the archive step, entered with a source directory that is missing, threw
C17_Witness ==
  /\ ~inputs.modulePathExists
  /\ Logged("Creating zip file for module")
  /\ thrown = "Source path does not exist"
  /\ calls = <<>>

\* C18.  Credential staging: a payload that is not valid JSON gives "Invalid
\* Google credentials JSON" and nothing is written; a valid payload that was
\* written is on disk unchanged at <RUNNER_TEMP or /tmp>/google-credentials.json
\* and that path is what createTempCredentialsFile returned.
C18_CredentialStaging ==
  LET path == (IF inputs.runnerTemp = "" THEN "/tmp" ELSE inputs.runnerTemp)
                \o "/google-credentials.json"
  IN /\ inputs.credentials \notin {"{}", "{\"type\":\"service_account\"}"} =>
          /\ PositionsOf("writeFileSync") = {}
          /\ ~credentialsOnDisk
          /\ tempCredentialsFile = ""
          /\ pc = "createCreds"
               \/ (pc = "catch" /\ thrown = "Invalid Google credentials JSON")
     /\ \A i \in PositionsOf("writeFileSync") :
          /\ calls[i].arg = path
          /\ calls[i].result = "ok" =>
               /\ credentialsOnDisk
               /\ credentialsData = inputs.credentials
               /\ tempCredentialsFile = path
               /\ thrown # "Invalid Google credentials JSON"
          /\ calls[i].result = "error" => tempCredentialsFile = ""
     /\ tempCredentialsFile # "" =>
          \E i \in PositionsOf("writeFileSync") : calls[i].result = "ok"

\* a service-account payload staged under RUNNER_TEMP
C18_Witness ==
  /\ inputs.runnerTemp = "/home/runner/_temp"
  /\ inputs.credentials = "{\"type\":\"service_account\"}"
  /\ tempCredentialsFile = "/home/runner/_temp/google-credentials.json"
  /\ credentialsData = "{\"type\":\"service_account\"}"
  /\ pc = "zip"

\* C19.  Object naming: the key uploaded is
\* modules/<moduleName>/<moduleName>-<moduleVersion>.zip, the folder listed is
\* modules/<moduleName>, and the module-url reported is gs://<bucketName>/
\* followed by the key that was uploaded.
C19_ObjectNaming ==
  LET key == "modules/" \o inputs.moduleName \o "/" \o inputs.moduleName \o "-"
               \o inputs.moduleVersion \o ".zip"
  IN /\ \A i \in PositionsOf("upload") : calls[i].arg = key
     /\ \A i \in PositionsOf("getFiles") : calls[i].arg = "modules/" \o inputs.moduleName
     /\ \A i \in 1..Len(outputs) :
          outputs[i].name = "module-url" =>
            /\ outputs[i].value = "gs://" \o inputs.bucket \o "/" \o key
            /\ \E j \in PositionsOf("upload") :
                 /\ calls[j].result = "ok"
                 /\ outputs[i].value = "gs://" \o inputs.bucket \o "/" \o calls[j].arg

\* a finished run that published 1.2.0 with retention on and reported its URL
C19_Witness ==
  /\ pc = "done"
  /\ inputs.moduleVersion = "1.2.0"
  /\ ListingReturned
  /\ Len(outputs) = 2
  /\ outputs[1].value = "gs://bkt/modules/foo/foo-1.2.0.zip"

\* what the documentation asks of a bucket name: 3 to 63 characters, lowercase
\* letters, digits, hyphens, underscores and periods, a letter or digit at
\* both ends
BucketNameAccepted(name) ==
  /\ Len(name) >= 3
  /\ Len(name) <= 63
  /\ \A i \in 1..Len(name) : Char(name, i) \in Lower \cup Digit \cup {"-", "_", "."}
  /\ Char(name, 1) \in Lower \cup Digit
  /\ Char(name, Len(name)) \in Lower \cup Digit

\* C20.  Bucket-name length bound: validateBucketName returns an accepted name
\* unchanged and throws for a name shorter than 3 or longer than 63 characters,
\* with an uppercase or other character, or not starting and ending with a
\* letter or digit; validateInputs then throws "Invalid bucket name" before
\* anything else is done.
C20_BucketNameBounds ==
  LET name == inputs.bucket
  IN IF BucketNameAccepted(name)
     THEN /\ ValidateBucketName(name) = [threw |-> FALSE, value |-> name]
          /\ Options.bucketName = name
          /\ thrown # "Invalid bucket name"
     ELSE /\ ValidateBucketName(name).threw
          /\ pc = "getInputs" \/ (pc = "catch" /\ thrown = "Invalid bucket name")
          /\ calls = <<>>

\* a 64-character name of lowercase letters was rejected by validateInputs
C20_Witness ==
  /\ Len(inputs.bucket) = 64
  /\ AllIn(inputs.bucket, Lower)
  /\ pc = "catch"
  /\ thrown = "Invalid bucket name"

\* the core.info lines of one kind, in the order written
LinesOf(msg) == SelectSeq(infoLog, LAMBDA l : l.msg = msg)

\* C21.  Deletion executor completeness and audit: the deletes are issued one
\* after the other in the order of the selection, one per selected object, each
\* with one "Deleting old version" line naming the object; a pass without a
\* delete failure has deleted every selected object.
C21_DeletionCompleteAndAudited ==
  LET d    == CallsOf("delete")
      told == LinesOf("Deleting old version:")
  IN /\ Len(d) <= Len(versionsToDelete)
     /\ \A j \in 1..Len(d) : d[j].arg = versionsToDelete[j].file
     /\ \A j, k \in 1..Len(d) : j # k => d[j].arg # d[k].arg
     /\ \A j \in 1..Len(d) : j < Len(d) => d[j].result = "ok"
     /\ Len(told) = Len(d)
     /\ \A j \in 1..Len(d) : told[j].arg = d[j].arg
     /\ Logged("Successfully cleaned up old versions") =>
          /\ Len(d) = Len(versionsToDelete)
          /\ \A j \in 1..Len(d) : d[j].result = "ok"
          /\ DeletedNames = {versionsToDelete[j].file : j \in 1..Len(versionsToDelete)}
     /\ (ListingReturned /\ thrown = "" /\ pc \in {"outputs", "finally", "done", "raised"}) =>
          \A j \in 1..Len(versionsToDelete) : versionsToDelete[j].file \notin store

\* the vpc pass deleted its two objects, lowest last, and said so
C21_Witness ==
  /\ inputs = VpcScenario.inputs
  /\ Logged("Successfully cleaned up old versions")
  /\ [j \in 1..2 |-> CallsOf("delete")[j].arg]
       = <<"modules/vpc/vpc-1.1.0.zip", "modules/vpc/vpc-1.0.0.zip">>
  /\ Len(LinesOf("Deleting old version:")) = 2

\* the answers that are a failure of the call
Failure == {"error", "false", "no output"}

\* C22.  No internal retry: archive creation, hashing, upload, makePublic, the
\* existence check and the listing are each invoked at most once, delete at
\* most once per object, and after the first failed call no stage runs: only
\* the removal of the credentials file may follow, and no output is set.
C22_NoRetry ==
  /\ \A op \in {"writeFileSync", "zip", "calculateFileHash", "upload", "makePublic",
                 "exists", "getFiles"} : Cardinality(PositionsOf(op)) <= 1
  /\ \A i, j \in PositionsOf("delete") : i # j => calls[i].arg # calls[j].arg
  /\ \A i \in 1..Len(calls) :
       (calls[i].result \in Failure /\ calls[i].op # "unlinkSync") =>
         /\ \A j \in (i + 1)..Len(calls) : calls[j].op = "unlinkSync"
         /\ thrown # ""
         /\ pc \in {"catch", "finally", "done", "raised"}
         /\ outputs = <<>>

\* a finished run whose upload failed: the upload was its last stage
C22_Witness ==
  /\ pc = "done"
  /\ failed = <<"upload failed">>
  /\ Cardinality(PositionsOf("upload")) = 1
  /\ PositionsOf("makePublic") = {}
  /\ calls[Len(calls)].op = "unlinkSync"

\* the text between <moduleFolder>/<moduleName>- and .zip in a name of that
\* shape, "" for any other name
NamedVersion(fileName, moduleFolder, moduleName) ==
  LET pre == moduleFolder \o "/" \o moduleName \o "-"
      suf == ".zip"
  IN IF Len(fileName) > Len(pre) + Len(suf) /\ StartsWith(fileName, pre) /\ EndsWith(fileName, suf)
     THEN SubSeq(fileName, Len(pre) + 1, Len(fileName) - Len(suf))
     ELSE ""

\* C23.  Pre-release versions participate in retention: every listed object
\* named <moduleFolder>/<moduleName>-<version>.zip whose version is a valid
\* semantic version other than the current one, pre-release tag or build
\* metadata included, is among the candidates of the pass.
C23_PrereleaseParticipates ==
  (/\ ListingReturned
   /\ IsPositiveInteger(Options.keepVersions)
   /\ thrown = "")
  => \A k \in storeAtList :
       LET v == NamedVersion(k, ModuleFolder(Options.moduleName), Options.moduleName)
       IN (v # "" /\ SemverValid(v) /\ v # Options.moduleVersion)
          => \E i \in 1..Len(versionFiles) : versionFiles[i].file = k

\* the names of a set in some order
RECURSIVE SeqOf(_)
SeqOf(S) ==
  IF S = {} THEN <<>>
  ELSE LET x == CHOOSE x \in S : TRUE IN <<x>> \o SeqOf(S \ {x})

\* the bucket one pass without a failure leaves when it starts from bucket S
AfterOnePass(S) ==
  LET vf  == FilterVersionFiles(SeqOf(Listed(S, ModuleFolder(Options.moduleName))),
                                ModuleFolder(Options.moduleName),
                                Options.moduleName, Options.moduleVersion)
      del == VersionsToDelete(vf, Options.keepVersions)
  IN IF NothingToCleanUp(vf, Options.keepVersions) THEN S
     ELSE S \ {del[i].file : i \in 1..Len(del)}

\* C24.  Idempotent and resumable retention: a pass made after a pass that
\* returned deletes nothing, and whenever a pass has returned, after any number
\* of passes stopped by a failed delete, the bucket is the one a single pass
\* without a failure would have left.
C24_IdempotentResumable ==
  /\ \A p, q \in PositionsOf("getFiles") :
       (p < q /\ \A i \in p..q : ~(calls[i].op = "delete" /\ calls[i].result = "error"))
         => \A i \in q..Len(calls) : calls[i].op # "delete"
  /\ (/\ ListingReturned
      /\ thrown = ""
      /\ pc \in {"outputs", "finally", "done", "raised"})
     => store = AfterOnePass(store \cup DeletedNames)

\* a second pass finished what a first pass, stopped at its second delete, had
\* left undone
C24_Witness ==
  /\ inputs = VpcScenario.inputs
  /\ pc = "done"
  /\ failed = <<>>
  /\ [i \in 1..Len(calls) |-> calls[i].op]
       = <<"writeFileSync", "zip", "calculateFileHash", "upload", "makePublic", "exists",
           "getFiles", "delete", "delete", "getFiles", "delete", "unlinkSync">>
  /\ CallsOf("delete")[2].result = "error"
  /\ store = {"modules/vpc/vpc-1.2.0.zip", "modules/vpc/vpc-1.3.0.zip",
              "modules/vpc/vpc-2.0.0.zip"}

\* the runs that ask for the retention pass: delete-old-versions is 'true'
RetentionInit == Init /\ inputs.deleteOld = "true"

RetentionSpec == RetentionInit /\ [][Next]_vars

\* the candidates among the objects of bucket S, as a set: the names the
\* pattern matches, other than the current version
CandidatesOf(S) ==
  LET o == Options
  IN {c \in {[file |-> k,
              version |-> MatchVersion(k, ModuleFolder(o.moduleName), o.moduleName)] :
               k \in S} :
        c.version \notin {"", o.moduleVersion}}

\* C25.  Deterministic retention decision: whether the pass selects anything,
\* and the set of objects it selects for deletion, are determined by the set
\* of objects listed, the current version and keepVersions alone, whatever the
\* order of the listing: an object is selected exactly when at least
\* keepVersions candidates are numerically above it.
C25_OrderIndependent ==
  ListingReturned =>
    LET cands    == CandidatesOf(storeAtList)
        keep     == Options.keepVersions
        n        == Cardinality(cands)
        selects  == /\ ~JsLe(Num(n), keep)
                    /\ ~(n >= 2 /\ \E c \in cands : ~SemverFull(c.version))
        selected == {versionsToDelete[i] : i \in 1..Len(versionsToDelete)}
    IN /\ Logged("Cleaning up old version(s)") <=> selects
       /\ ~selects => selected = {}
       /\ selects =>
            LET main == [c \in cands |-> MainOf(c.version)]
            IN selected = {c \in cands :
                             keep.nan \/ Cardinality({d \in cands :
                                            CompareMain(main[c], main[d]) < 0}) >= keep.val}

\* a finished pass whose listing named a deleted object, then a kept
\* candidate, then another deleted object
C25_Witness ==
  /\ pc = "done"
  /\ failed = <<>>
  /\ IsPositiveInteger(Options.keepVersions)
  /\ \E i, j, k \in 1..Len(files) :
       /\ i < j /\ j < k
       /\ files[i] \in DeletedNames
       /\ files[k] \in DeletedNames
       /\ files[j] \in store
       /\ \E c \in 1..Len(versionFiles) : versionFiles[c].file = files[j]

\* the listed name is a candidate of the pass
IsCandidate(k) ==
  MatchVersion(k, ModuleFolder(Options.moduleName), Options.moduleName)
    \notin {"", Options.moduleVersion}

C27_MalformedNamesDiscarded ==
  /\ thrown # "Invalid Version"
  /\ \A i \in 1..Len(versionFiles) : SemverFull(versionFiles[i].version)

\* ------------------------------------------- the legacy cleanupOldVersions
\* the characters of an identifier in the order of their code units
IdAlphabet == "-0123456789ABCDEFGHIJKLMNOPQRSTUVWXYZabcdefghijklmnopqrstuvwxyz"

\* a < b, a === b, a > b on strings of identifier characters: -1, 0 or 1
RECURSIVE StringCompare(_, _)
StringCompare(a, b) ==
  IF Len(a) = 0 /\ Len(b) = 0 THEN 0
  ELSE IF Len(a) = 0 THEN -1
  ELSE IF Len(b) = 0 THEN 1
  ELSE IF IndexOf(IdAlphabet, Char(a, 1)) < IndexOf(IdAlphabet, Char(b, 1)) THEN -1
  ELSE IF IndexOf(IdAlphabet, Char(a, 1)) > IndexOf(IdAlphabet, Char(b, 1)) THEN 1
  ELSE StringCompare(SubSeq(a, 2, Len(a)), SubSeq(b, 2, Len(b)))

\* compareIdentifiers: numeric identifiers by value and below the others,
\* the others as strings
CompareIdentifiers(a, b) ==
  IF IsDigits(a) /\ IsDigits(b)
  THEN (IF DecVal(a) = DecVal(b) THEN 0 ELSE IF DecVal(a) < DecVal(b) THEN -1 ELSE 1)
  ELSE IF IsDigits(a) THEN -1
  ELSE IF IsDigits(b) THEN 1
  ELSE StringCompare(a, b)

\* new SemVer(v) of a valid version: the three numbers and the pre-release
\* identifiers; a leading v and the build metadata are left out
SemverParse(v) ==
  LET t    == IF StartsWith(v, "v") THEN SubSeq(v, 2, Len(v)) ELSE v
      plus == IndexOf(t, "+")
      nob  == IF plus = 0 THEN t ELSE SubSeq(t, 1, plus - 1)
      dash == IndexOf(nob, "-")
  IN [main       |-> MainOf(IF dash = 0 THEN nob ELSE SubSeq(nob, 1, dash - 1)),
      prerelease |-> IF dash = 0 THEN <<>> ELSE Split(SubSeq(nob, dash + 1, Len(nob)), ".")]

\* SemVer.comparePre on two lists of pre-release identifiers
RECURSIVE ComparePre(_, _)
ComparePre(a, b) ==
  IF a # <<>> /\ b = <<>> THEN -1
  ELSE IF a = <<>> /\ b # <<>> THEN 1
  ELSE IF a = <<>> /\ b = <<>> THEN 0
  ELSE IF Head(a) = Head(b)
       THEN (IF Tail(a) = <<>> /\ Tail(b) = <<>> THEN 0
             ELSE IF Tail(b) = <<>> THEN 1
             ELSE IF Tail(a) = <<>> THEN -1
             ELSE ComparePre(Tail(a), Tail(b)))
       ELSE CompareIdentifiers(Head(a), Head(b))

\* semver.compare(a, b) on two valid versions: compareMain || comparePre
SemverCompareFull(a, b) ==
  LET x == SemverParse(a)
      y == SemverParse(b)
  IN IF CompareMain(x.main, y.main) # 0 THEN CompareMain(x.main, y.main)
     ELSE ComparePre(x.prerelease, y.prerelease)

\* semver.lt(a, b)
SemverLt(a, b) == SemverCompareFull(a, b) < 0

\* path.basename(name)
Basename(name) ==
  LET slashes == {i \in 1..Len(name) : Char(name, i) = "/"}
  IN IF slashes = {} THEN name
     ELSE SubSeq(name, (CHOOSE i \in slashes : \A j \in slashes : j <= i) + 1, Len(name))

\* keepVersions of the legacy run: Math.max(1, Math.min(parseInt(input, 10) || 5, 100))
LegacyKeepVersions(keep) ==
  LET n == ParseInt(keep)
      v == IF n.nan \/ n.val = 0 THEN 5 ELSE n.val
      m == IF v < 100 THEN v ELSE 100
  IN IF m > 1 THEN m ELSE 1

\* the filter on the listing: the base name starts with <moduleName>-, is not
\* <moduleName>-latest.zip and ends with .zip
LegacyIsVersionFile(name, moduleName) ==
  LET fileName == Basename(name)
  IN /\ StartsWith(fileName, moduleName \o "-")
     /\ fileName # moduleName \o "-latest.zip"
     /\ EndsWith(fileName, ".zip")

\* group 1 of fileName.match(new RegExp(`${moduleName}-(.*).zip`)) for a base
\* name that passed the filter: what lies between the leading <moduleName>-
\* and the last four characters; "" when nothing does
LegacyVersionOf(name, moduleName) ==
  LET fileName == Basename(name)
  IN IF Len(fileName) > Len(moduleName) + 5
     THEN SubSeq(fileName, Len(moduleName) + 2, Len(fileName) - 4)
     ELSE ""

\* x placed into a list already in descending order, after every entry that
\* does not compare below it (Array.prototype.sort is stable)
RECURSIVE LegacyInsertDesc(_, _)
LegacyInsertDesc(x, sorted) ==
  IF sorted = <<>> THEN <<x>>
  ELSE IF SemverCompareFull(x.version, Head(sorted).version) > 0
       THEN <<x>> \o sorted
       ELSE <<Head(sorted)>> \o LegacyInsertDesc(x, Tail(sorted))

\* .sort((a, b) => semver.compare(b.version, a.version))
RECURSIVE LegacySortDesc(_)
LegacySortDesc(vf) ==
  IF vf = <<>> THEN <<>>
  ELSE LegacyInsertDesc(vf[Len(vf)], LegacySortDesc(SubSeq(vf, 1, Len(vf) - 1)))

\* the entries of files that pass the predicate, as {file, version}
RECURSIVE LegacyMap(_, _)
LegacyMap(listing, moduleName) ==
  IF listing = <<>> THEN <<>>
  ELSE LET rest == LegacyMap(Tail(listing), moduleName)
           v    == LegacyVersionOf(Head(listing), moduleName)
       IN IF LegacyIsVersionFile(Head(listing), moduleName) /\ v # "" /\ SemverValid(v)
          THEN <<[file |-> Head(listing), version |-> v]>> \o rest
          ELSE rest

\* versions: the version files with a valid version, highest first
LegacyVersions(listing, moduleName) == LegacySortDesc(LegacyMap(listing, moduleName))

\* a selection that keeps keepVersions older versions beside the current one
LegacyVersionsToDeleteKeepN(versions, currentVersion, keepVersions) ==
  Slice(SelectSeq(versions, LAMBDA item : SemverLt(item.version, currentVersion)),
        Num(keepVersions))

\* versionsToDelete: versions.filter(semver.lt(version, currentVersion))
\*                           .slice(keepVersions - 1)
LegacyVersionsToDelete(versions, currentVersion, keepVersions) ==
  Slice(SelectSeq(versions, LAMBDA item : SemverLt(item.version, currentVersion)),
        Num(keepVersions - 1))

\* object names that may be in the bucket before the legacy run
LegacyCatalogue ==
  {"modules/foo/foo-1.0.0.zip",
   "modules/foo/foo-1.10.0.zip",
   "modules/foo/foo-3.0.0.zip",
   "modules/foo/foo-2.0.0-rc.zip",
   "modules/foo/foo-latest.zip",
   "modules/foo/foo-old/foo-0.5.0.zip"}

\* inputs of the legacy run that reach cleanupOldVersions
LegacyInputs ==
  {[BaseInput EXCEPT !.keep = k] : k \in {"1", "2", "3", "0"}}
    \cup {[BaseInput EXCEPT !.moduleVersion = "1.2.0", !.keep = "2"]}

\* the legacy run at its call of cleanupOldVersions: the upload has been
\* verified, so the current version is in the bucket
LegacyInit ==
  /\ inputs \in LegacyInputs
  /\ \E S \in SUBSET LegacyCatalogue :
        /\ Cardinality(S) <= MaxStored
        /\ store = S \cup {DestinationKey(inputs.moduleName, inputs.moduleVersion)}
  /\ publicObjects = {}
  /\ pc = "legacyList"
  /\ tempCredentialsFile = ""
  /\ credentialsOnDisk = FALSE
  /\ credentialsData = ""
  /\ storeAtList = {}
  /\ files = <<>>
  /\ versionFiles = <<>>
  /\ versionsToDelete = <<>>
  /\ deleteIndex = 0
  /\ thrown = ""
  /\ failed = <<>>
  /\ outputs = <<>>
  /\ calls = <<>>
  /\ infoLog = <<>>

\* the legacy cleanupOldVersions up to its first delete: await
\* bucket.getFiles({ prefix }), the filter, the sort and the slice
LegacyGetFiles ==
  /\ pc = "legacyList"
  /\ LET prefix == ModuleFolder(inputs.moduleName) \o "/" \o inputs.moduleName \o "-"
     IN \/ /\ calls' = Append(calls, Call("getFiles", prefix, "error"))
           /\ thrown' = "getFiles failed"
           /\ pc' = "legacyThrown"
           /\ UNCHANGED <<cleanupVars, infoLog>>
        \/ \E listing \in Orderings(Listed(store, prefix)) :
             LET versions == LegacyVersions(listing, inputs.moduleName)
                 del      == LegacyVersionsToDelete(versions, inputs.moduleVersion,
                                                    LegacyKeepVersions(inputs.keep))
             IN /\ calls' = Append(calls, Call("getFiles", prefix, "ok"))
                /\ files' = listing
                /\ storeAtList' = store
                /\ versionFiles' = versions
                /\ versionsToDelete' = del
                /\ deleteIndex' = 1
                /\ thrown' = thrown
                /\ IF Len(del) > 0
                   THEN /\ infoLog' = Append(infoLog, Info("Deleting old versions...", ""))
                        /\ pc' = "legacyDelete"
                   ELSE /\ infoLog' = Append(infoLog, Info("No old versions to delete", ""))
                        /\ pc' = "legacyReturned"
  /\ UNCHANGED <<inputs, store, publicObjects, tempCredentialsFile, credentialsOnDisk,
                 credentialsData, failed, outputs>>

\* one turn of the legacy delete loop: await item.file.delete(), core.info
LegacyDeleteNext ==
  /\ pc = "legacyDelete"
  /\ deleteIndex <= Len(versionsToDelete)
  /\ LET item == versionsToDelete[deleteIndex]
     IN \E ok \in BOOLEAN :
          /\ calls' = Append(calls, Call("delete", item.file, IF ok THEN "ok" ELSE "error"))
          /\ IF ok
             THEN /\ store' = store \ {item.file}
                  /\ deleteIndex' = deleteIndex + 1
                  /\ thrown' = thrown
                  /\ infoLog' = Append(infoLog, Info("Deleted old version:", item.version))
                  /\ pc' = IF deleteIndex = Len(versionsToDelete)
                           THEN "legacyReturned" ELSE "legacyDelete"
             ELSE /\ store' = store
                  /\ deleteIndex' = deleteIndex
                  /\ thrown' = "delete failed"
                  /\ infoLog' = infoLog
                  /\ pc' = "legacyThrown"
  /\ UNCHANGED <<inputs, publicObjects, tempCredentialsFile, credentialsOnDisk, credentialsData,
                 storeAtList, files, versionFiles, versionsToDelete, failed, outputs>>

LegacyNext ==
  \/ LegacyGetFiles
  \/ LegacyDeleteNext

LegacySpec == LegacyInit /\ [][LegacyNext]_vars

\* the names of the listing the legacy pass may delete: those it reads a
\* valid version from that is below the current version
LegacyOlder ==
  {f \in {files[i] : i \in 1..Len(files)} :
     /\ LegacyIsVersionFile(f, inputs.moduleName)
     /\ LegacyVersionOf(f, inputs.moduleName) # ""
     /\ SemverValid(LegacyVersionOf(f, inputs.moduleName))
     /\ SemverLt(LegacyVersionOf(f, inputs.moduleName), inputs.moduleVersion)}

VersionObjectsListed ==
  {f \in {files[i] : i \in 1..Len(files)} \ {Destination} :
     \/ LegacyIsVersionFile(f, inputs.moduleName)
     \/ MatchVersion(f, ModuleFolder(inputs.moduleName), inputs.moduleName) # ""}

\* C30.  Relation between the two implementations: on a listing whose
\* version objects are all plain MAJOR.MINOR.PATCH versions strictly below the
\* current version, what the legacy pass called with keepVersions = k + 1
\* selects for deletion is, as a set, what GCSService.cleanupOldVersions
\* called with keepVersions = k selects on the same listing (k >= 1).
C30_LegacyAgreesWithNew ==
  LET k  == LegacyKeepVersions(inputs.keep) - 1
      vf == FilterVersionFiles(files, ModuleFolder(inputs.moduleName), inputs.moduleName,
                               inputs.moduleVersion)
      new == IF NothingToCleanUp(vf, Num(k)) THEN <<>> ELSE VersionsToDelete(vf, Num(k))
  IN (/\ ListingReturned
      /\ k >= 1
      /\ \A f \in VersionObjectsListed :
           /\ IsMainVersion(LegacyVersionOf(f, inputs.moduleName))
           /\ SemverLt(LegacyVersionOf(f, inputs.moduleName), inputs.moduleVersion))
     => {versionsToDelete[i].file : i \in 1..Len(versionsToDelete)}
          = {new[i].file : i \in 1..Len(new)}

\* C29.  Frame of the retention pass: every name handed to delete was in the
\* listing of the pass, matches <moduleFolder>/<moduleName>-<X.Y.Z>.zip for
\* the configured module and is not the current version's key; once the pass
\* has listed, nothing is uploaded or made public and no object appears in the
\* bucket; the bucket loses only names whose delete succeeded, so the listed
\* objects that do not match the pattern are all still there.
C29_RetentionFrame ==
  /\ \A i \in 1..Len(calls) :
       calls[i].op = "delete" =>
         /\ \E j \in 1..Len(files) : files[j] = calls[i].arg
         /\ MatchVersion(calls[i].arg, ModuleFolder(Options.moduleName), Options.moduleName) # ""
         /\ calls[i].arg # Destination
  /\ \A j \in 1..Len(calls) :
       calls[j].op \in {"upload", "makePublic"} =>
         \A i \in 1..(j - 1) : calls[i].op # "getFiles"
  /\ ListingReturned =>
       /\ store \subseteq storeAtList
       /\ storeAtList \ store \subseteq DeletedNames
       /\ \A n \in storeAtList \ store :
            MatchVersion(n, ModuleFolder(Options.moduleName), Options.moduleName) # ""
       /\ publicObjects \subseteq {Destination}

\* a finished pass that deleted an old version while another module's object
\* was listed beside it
C29_Witness ==
  /\ pc = "done"
  /\ failed = <<>>
  /\ DeletedNames # {}
  /\ "modules/foo/foobar-1.0.0.zip" \in storeAtList \cap store
  /\ Destination \in store

====
